---- MODULE Spec2Model ----
(***************************************************************************)
(* Optimal-fit line wrapping (src/src/core/optimal_fit.rs).                *)
(*                                                                         *)
(* One behaviour of this module is one call of wrap_optimal_fit: the       *)
(* width accumulator, the online column-minima search over the cost        *)
(* closure (which reads and extends the LineNumbers cache), and the        *)
(* backtracking loop that extracts the lines.                              *)
(*                                                                         *)
(* Vectors of the code are sequences here; At(s, k) reads the code's s[k]  *)
(* (zero-based).  A slice &fragments[a..b] is the pair <<a, b>>.           *)
(*                                                                         *)
(* Costs are f64 in the code.  They are modelled by exact integers: for    *)
(* the target widths drawn below (divisors of 100 after the clamp to 1)    *)
(* every term of line_penalty is an integer, so no rounding is modelled.   *)
(***************************************************************************)
EXTENDS Integers, Sequences, FiniteSets, TLC

\* Bound of the model: the number of fragments of the enumerated inputs.
MaxN == 3

\* Penalty constants of the code.
NLINE_PENALTY == 1000
MAX_LINE_PENALTY == 10000
OVERFLOW_PENALTY == 2 * MAX_LINE_PENALTY
SHORT_LINE_FRACTION == 4
SHORT_LAST_LINE_PENALTY == 125
HYPHEN_PENALTY == 150

VARIABLES
    fragments,      \* the input slice: records of the three Fragment widths
    line_widths,    \* the target-width function, [first, rest]
    widths,         \* the prefix sums
    line_numbers,   \* LineNumbers.line_numbers, the cache
    result,         \* the minima table of online_column_minima
    finished,       \* solver state
    base,
    tentative,
    evals,          \* history: the cells the cost closure was called on
    lines,          \* the output vector
    pos,            \* backtracking position
    pc              \* position in wrap_optimal_fit

vars == <<fragments, line_widths, widths, line_numbers, result, finished,
          base, tentative, evals, lines, pos, pc>>

At(s, k) == s[k + 1]

Max(a, b) == IF a >= b THEN a ELSE b

Min(a, b) == IF a <= b THEN a ELSE b

Range(a, b) == [k \in 1..(b - a) |-> a + k - 1]

----------------------------------------------------------------------------
\* Inputs.

FragmentWidths == {0, 1}

Fragment == [width : FragmentWidths, whitespace_width : 0..1, penalty_width : 0..1]

Word(w, ws) == [width |-> w, whitespace_width |-> ws, penalty_width |-> 0]

\* "To be, or not to be: that is the question"
QuoteFragments ==
    << Word(2, 1), Word(3, 1), Word(2, 1), Word(3, 1), Word(2, 1),
       Word(3, 1), Word(4, 1), Word(2, 1), Word(3, 1), Word(8, 0) >>

\* A single fragment wider than the target widths.
WideFragments ==
    {<<[width |-> w, whitespace_width |-> 1, penalty_width |-> p]>> :
        w \in {3, 6}, p \in 0..1}

Widths(a, b) == [first |-> a, rest |-> b]

\* The target-width functions: constant ones (0 is clamped to 1 by the
\* code) and hanging indents.
LineWidthFns == {Widths(0, 0), Widths(2, 2), Widths(5, 5), Widths(2, 5), Widths(5, 2)}

QuoteLineWidthFns == {Widths(10, 10), Widths(5, 10), Widths(10, 5)}

Inputs ==
    (((UNION {[1..n -> Fragment] : n \in 0..MaxN}) \cup WideFragments) \X LineWidthFns)
    \cup ({QuoteFragments} \X QuoteLineWidthFns)

\* line_widths(line_number)
LineWidthOf(f, line_number) == IF line_number = 0 THEN f.first ELSE f.rest

----------------------------------------------------------------------------
\* LineNumbers

LineNumbersNewMutantNoPush == <<>>

\* LineNumbers::new
LineNumbersNew == <<0>>

\* LineNumbers::get.  ok = FALSE stands for the panic of minima[pos] out of
\* bounds, or for the unbounded recursion of get on an index not yet cached.
RECURSIVE GetMutantNoIncrement(_, _, _)
GetMutantNoIncrement(cache, i, minima) ==
    IF Len(cache) < i + 1
    THEN LET p == Len(cache) IN
         IF p >= Len(minima) \/ At(minima, p).row >= p
         THEN [cache |-> cache, val |-> 0, ok |-> FALSE]
         ELSE GetMutantNoIncrement(Append(cache, At(cache, At(minima, p).row)), i, minima)
    ELSE [cache |-> cache, val |-> At(cache, i), ok |-> TRUE]

RECURSIVE Get(_, _, _)
Get(cache, i, minima) ==
    IF Len(cache) < i + 1
    THEN LET p == Len(cache) IN
         IF p >= Len(minima) \/ At(minima, p).row >= p
         THEN [cache |-> cache, val |-> 0, ok |-> FALSE]
         ELSE LET line_number == 1 + At(cache, At(minima, p).row)
              IN Get(Append(cache, line_number), i, minima)
    ELSE [cache |-> cache, val |-> At(cache, i), ok |-> TRUE]

----------------------------------------------------------------------------
\* line_penalty

GapPenalty(line_width, target_width) ==
    ((target_width - line_width) * (target_width - line_width) * MAX_LINE_PENALTY)
        \div (target_width * target_width)

line_penalty_mutant_any_short(i, j, frags, line_width, target_width, minimum_cost) ==
    minimum_cost + NLINE_PENALTY
    + (IF line_width > target_width
       THEN (line_width - target_width) * OVERFLOW_PENALTY
       ELSE IF j < Len(frags)
       THEN GapPenalty(line_width, target_width)
       ELSE IF line_width < target_width \div SHORT_LINE_FRACTION
       THEN SHORT_LAST_LINE_PENALTY
       ELSE 0)
    + (IF At(frags, j - 1).penalty_width > 0 THEN HYPHEN_PENALTY ELSE 0)

line_penalty(i, j, frags, line_width, target_width, minimum_cost) ==
    minimum_cost + NLINE_PENALTY
    + (IF line_width > target_width
       THEN (line_width - target_width) * OVERFLOW_PENALTY
       ELSE IF j < Len(frags)
       THEN GapPenalty(line_width, target_width)
       ELSE IF i + 1 = j /\ line_width < target_width \div SHORT_LINE_FRACTION
       THEN SHORT_LAST_LINE_PENALTY
       ELSE 0)
    + (IF At(frags, j - 1).penalty_width > 0 THEN HYPHEN_PENALTY ELSE 0)

----------------------------------------------------------------------------
\* Width accumulator

RECURSIVE AccumulateMutantNoWhitespace(_, _)
AccumulateMutantNoWhitespace(frags, acc) ==
    IF Len(acc) = Len(frags) + 1 THEN acc
    ELSE AccumulateMutantNoWhitespace(frags,
            Append(acc, acc[Len(acc)] + frags[Len(acc)].width))

RECURSIVE Accumulate(_, _)
Accumulate(frags, acc) ==
    IF Len(acc) = Len(frags) + 1 THEN acc
    ELSE Accumulate(frags,
            Append(acc, acc[Len(acc)] + frags[Len(acc)].width
                                      + frags[Len(acc)].whitespace_width))

LineWidthMutantKeepWhitespace(ws, frags, i, j) ==
    LET d1 == At(ws, j) - At(ws, i)
    IN [under |-> d1 < 0,
        w |-> d1 + At(frags, j - 1).penalty_width]

\* widths[j] - widths[i] - fragments[j - 1].whitespace_width
\*     + fragments[j - 1].penalty_width, in usize: under is TRUE when a
\* subtraction would go below zero.
LineWidth(ws, frags, i, j) ==
    LET d1 == At(ws, j) - At(ws, i)
        d2 == d1 - At(frags, j - 1).whitespace_width
    IN [under |-> d1 < 0 \/ d2 < 0,
        w |-> d2 + At(frags, j - 1).penalty_width]

----------------------------------------------------------------------------
\* The cost closure handed to the solver

CellMutantOneBasedLine(cache, minima, i, j) ==
    LET g == Get(cache, i, minima)
        target_width == Max(1, LineWidthOf(line_widths, g.val + 1))
        lw == LineWidth(widths, fragments, i, j)
    IN [i |-> i, j |-> j,
        ok |-> g.ok /\ ~lw.under,
        line_number |-> g.val,
        target_width |-> target_width,
        line_width |-> lw.w,
        under |-> lw.under,
        minimum_cost |-> At(minima, i).cost,
        cost |-> line_penalty(i, j, fragments, lw.w, target_width, At(minima, i).cost)]

\* One call of the closure on (i, j) with the table slice `minima` and the
\* cache as it stands: what it reads, what it computes, whether it panics.
Cell(cache, minima, i, j) ==
    LET g == Get(cache, i, minima)
        target_width == Max(1, LineWidthOf(line_widths, g.val))
        lw == LineWidth(widths, fragments, i, j)
    IN [i |-> i, j |-> j,
        ok |-> g.ok /\ ~lw.under,
        line_number |-> g.val,
        target_width |-> target_width,
        line_width |-> lw.w,
        under |-> lw.under,
        minimum_cost |-> At(minima, i).cost,
        cost |-> line_penalty(i, j, fragments, lw.w, target_width, At(minima, i).cost)]

\* &result[..finished + 1]
Finalized == SubSeq(result, 1, finished + 1)

\* The macro m![i, j] of online_column_minima.  Within one solver step the
\* slice is fixed, so the entries get appends to the cache are the same in
\* whatever order the step's calls come: each call is evaluated against the
\* cache at the start of the step, and the step's action stores the cache as
\* extended by the calls it made (CacheAfter).
Matrix(i, j) == Cell(line_numbers, Finalized, i, j).cost

RECURSIVE CacheAfter(_, _, _)
CacheAfter(cache, minima, cells) ==
    IF cells = {} THEN cache
    ELSE LET c == CHOOSE x \in cells : TRUE
         IN CacheAfter(Get(cache, c[1], minima).cache, minima, cells \ {c})

----------------------------------------------------------------------------
\* smawk::smawk_inner, over Matrix.  ev collects the cells evaluated.

PairLess(a, b) == a[1] < b[1] \/ (a[1] = b[1] /\ a[2] < b[2])

RECURSIVE PopWhile(_, _, _, _)
PopWhile(stack, r, cols, ev) ==
    IF stack = <<>> THEN [stack |-> stack, ev |-> ev]
    ELSE LET c == cols[Len(stack)]
             top == stack[Len(stack)]
             ev2 == ev \cup {<<top, c>>, <<r, c>>}
         IN IF Matrix(top, c) > Matrix(r, c)
            THEN PopWhile(SubSeq(stack, 1, Len(stack) - 1), r, cols, ev2)
            ELSE [stack |-> stack, ev |-> ev2]

RECURSIVE Reduce(_, _, _, _, _)
Reduce(rows, cols, k, stack, ev) ==
    IF k > Len(rows) THEN [stack |-> stack, ev |-> ev]
    ELSE LET p == PopWhile(stack, rows[k], cols, ev)
             s2 == IF Len(p.stack) # Len(cols)
                   THEN Append(p.stack, rows[k]) ELSE p.stack
         IN Reduce(rows, cols, k + 1, s2, p.ev)

OddCols(cols) == [k \in 1..(Len(cols) \div 2) |-> cols[2 * k]]

RECURSIVE Scan(_, _, _, _, _, _, _)
Scan(rows, r, row, last_row, col, pair, ev) ==
    IF row = last_row THEN [r |-> r, pair |-> pair, ev |-> ev, ok |-> TRUE]
    ELSE IF r + 1 >= Len(rows) THEN [r |-> r, pair |-> pair, ev |-> ev, ok |-> FALSE]
    ELSE LET row2 == At(rows, r + 1)
             cand == <<Matrix(row2, col), row2>>
         IN Scan(rows, r + 1, row2, last_row, col,
                 IF PairLess(cand, pair) THEN cand ELSE pair,
                 ev \cup {<<row2, col>>})

RECURSIVE Interpolate(_, _, _, _, _, _)
Interpolate(rows, cols, c, r, minima, ev) ==
    IF c >= Len(cols) THEN [minima |-> minima, ev |-> ev, ok |-> TRUE]
    ELSE LET col == At(cols, c)
             row == At(rows, r)
             last_row == IF c = Len(cols) - 1
                         THEN At(rows, Len(rows) - 1)
                         ELSE minima[At(cols, c + 1)]
             s == Scan(rows, r, row, last_row, col,
                       <<Matrix(row, col), row>>, ev \cup {<<row, col>>})
         IN IF ~s.ok THEN [minima |-> minima, ev |-> s.ev, ok |-> FALSE]
            ELSE Interpolate(rows, cols, c + 2, s.r,
                             [minima EXCEPT ![col] = s.pair[2]], s.ev)

RECURSIVE smawk_inner(_, _, _, _)
smawk_inner(rows, cols, minima, ev) ==
    IF cols = <<>> THEN [minima |-> minima, ev |-> ev, ok |-> TRUE]
    ELSE LET red == Reduce(rows, cols, 1, <<>>, ev)
             rec == smawk_inner(red.stack, OddCols(cols), minima, red.ev)
         IN IF ~rec.ok THEN rec
            ELSE Interpolate(red.stack, cols, 0, 0, rec.minima, rec.ev)

\* The loop `for col in cols` of the first case of online_column_minima.
RECURSIVE Install(_, _, _, _)
Install(res, cols, k, minima) ==
    IF k > Len(cols) THEN res
    ELSE LET col == cols[k]
             row == minima[col]
             v == Matrix(row, col)
             res2 == IF col >= Len(res) THEN Append(res, [row |-> row, cost |-> v])
                     ELSE IF v < At(res, col).cost
                     THEN [res EXCEPT ![col + 1] = [row |-> row, cost |-> v]]
                     ELSE res
         IN Install(res2, cols, k + 1, minima)

----------------------------------------------------------------------------
\* wrap_optimal_fit

Init ==
    /\ \E inp \in Inputs : fragments = inp[1] /\ line_widths = inp[2]
    /\ widths = <<>>
    /\ line_numbers = <<>>
    /\ result = <<>>
    /\ finished = 0
    /\ base = 0
    /\ tentative = 0
    /\ evals = {}
    /\ lines = <<>>
    /\ pos = 0
    /\ pc = "start"

\* The width accumulator, LineNumbers::new and the solver's initial state.
Start ==
    /\ pc = "start"
    /\ widths' = Accumulate(fragments, <<0>>)
    /\ line_numbers' = LineNumbersNew
    /\ result' = <<[row |-> 0, cost |-> 0]>>
    /\ finished' = 0
    /\ base' = 0
    /\ tentative' = 0
    /\ pc' = "solve"
    /\ UNCHANGED <<fragments, line_widths, evals, lines, pos>>

\* size, the second argument of online_column_minima.
Size == Len(widths)

\* What one iteration of the solver's loop leaves behind, given the cells
\* ev it evaluated: the cache as extended, the history, and a panic if one
\* of the calls panicked.
Evaluated(ev, ok) ==
    LET cells == {Cell(line_numbers, Finalized, c[1], c[2]) : c \in ev}
        good == ok /\ \A c \in cells : c.ok /\ c.i < c.j /\ c.j < Size
    IN /\ line_numbers' = CacheAfter(line_numbers, Finalized, ev)
       /\ evals' = evals \cup cells
       /\ pc' = IF good THEN "solve" ELSE "panic"

\* First case: a new tentative range, by smawk_inner on the rows from base.
SolveCase1 ==
    /\ pc = "solve"
    /\ finished < Size - 1
    /\ finished + 1 > tentative
    /\ LET i == finished + 1
           rows == Range(base, finished + 1)
           t == Min(finished + Len(rows), Size - 1)
           cols == Range(finished + 1, t + 1)
           sm == smawk_inner(rows, cols, [k \in 0..t |-> 0], {})
       IN /\ tentative' = t
          /\ result' = Install(result, cols, 1, sm.minima)
          /\ finished' = i
          /\ Evaluated(sm.ev \cup {<<sm.minima[At(cols, k)], At(cols, k)>> :
                                     k \in 0..(Len(cols) - 1)}, sm.ok)
    /\ UNCHANGED <<fragments, line_widths, widths, base, lines, pos>>

\* Second case: the new column minimum is on the diagonal.
SolveCase2 ==
    /\ pc = "solve"
    /\ finished < Size - 1
    /\ finished + 1 <= tentative
    /\ LET i == finished + 1
           diag == Matrix(i - 1, i)
       IN /\ diag < At(result, i).cost
          /\ result' = [result EXCEPT ![i + 1] = [row |-> i - 1, cost |-> diag]]
          /\ base' = i - 1
          /\ tentative' = i
          /\ finished' = i
          /\ Evaluated({<<i - 1, i>>}, TRUE)
    /\ UNCHANGED <<fragments, line_widths, widths, lines, pos>>

\* Third case: row i - 1 supplies no column minimum up to tentative.
SolveCase3 ==
    /\ pc = "solve"
    /\ finished < Size - 1
    /\ finished + 1 <= tentative
    /\ LET i == finished + 1
       IN /\ ~(Matrix(i - 1, i) < At(result, i).cost)
          /\ Matrix(i - 1, tentative) >= At(result, tentative).cost
          /\ finished' = i
          /\ Evaluated({<<i - 1, i>>, <<i - 1, tentative>>}, TRUE)
    /\ UNCHANGED <<fragments, line_widths, widths, result, base, tentative, lines, pos>>

\* Fourth case: a new column minimum at tentative.
SolveCase4 ==
    /\ pc = "solve"
    /\ finished < Size - 1
    /\ finished + 1 <= tentative
    /\ LET i == finished + 1
       IN /\ ~(Matrix(i - 1, i) < At(result, i).cost)
          /\ ~(Matrix(i - 1, tentative) >= At(result, tentative).cost)
          /\ base' = i - 1
          /\ tentative' = i
          /\ finished' = i
          /\ Evaluated({<<i - 1, i>>, <<i - 1, tentative>>}, TRUE)
    /\ UNCHANGED <<fragments, line_widths, widths, result, lines, pos>>

\* The solver returns; Vec::with_capacity(line_numbers.get(fragments.len(),
\* &minima)) and pos = fragments.len().
SolveDone ==
    /\ pc = "solve"
    /\ ~(finished < Size - 1)
    /\ LET g == Get(line_numbers, Len(fragments), result)
       IN /\ line_numbers' = g.cache
          /\ pc' = IF g.ok THEN "backtrack" ELSE "panic"
    /\ lines' = <<>>
    /\ pos' = Len(fragments)
    /\ UNCHANGED <<fragments, line_widths, widths, result, finished, base,
                   tentative, evals>>

BacktrackMutantTestFirst ==
    /\ pc = "backtrack"
    /\ IF pos = 0
       THEN pc' = "reverse" /\ UNCHANGED <<lines, pos>>
       ELSE LET prev == At(result, pos).row
            IN /\ lines' = Append(lines, <<prev, pos>>)
               /\ pos' = prev
               /\ pc' = IF prev > pos THEN "panic" ELSE "backtrack"
    /\ UNCHANGED <<fragments, line_widths, widths, line_numbers, result,
                   finished, base, tentative, evals>>

\* One turn of the backtracking loop.
Backtrack ==
    /\ pc = "backtrack"
    /\ LET prev == At(result, pos).row
       IN /\ lines' = Append(lines, <<prev, pos>>)
          /\ pos' = prev
          /\ pc' = IF prev > pos THEN "panic"
                   ELSE IF prev = 0 THEN "reverse" ELSE "backtrack"
    /\ UNCHANGED <<fragments, line_widths, widths, line_numbers, result,
                   finished, base, tentative, evals>>

ReverseLinesMutantKeepOrder(s) == s

ReverseLines(s) == [k \in 1..Len(s) |-> s[Len(s) + 1 - k]]

\* lines.reverse(), and the return.
Reverse ==
    /\ pc = "reverse"
    /\ lines' = ReverseLines(lines)
    /\ pc' = "done"
    /\ UNCHANGED <<fragments, line_widths, widths, line_numbers, result,
                   finished, base, tentative, evals, pos>>

Next ==
    \/ Start
    \/ SolveCase1
    \/ SolveCase2
    \/ SolveCase3
    \/ SolveCase4
    \/ SolveDone
    \/ Backtrack
    \/ Reverse

Spec == Init /\ [][Next]_vars

----------------------------------------------------------------------------
\* Quantities the properties are stated in, computed from the fragments
\* alone (not from the prefix sums).

N == Len(fragments)

Done == pc = "done"

ConstantWidth == line_widths.first = line_widths.rest

RECURSIVE SumContent(_, _)
SumContent(i, j) ==
    IF i >= j THEN 0 ELSE At(fragments, i).width + SumContent(i + 1, j)

RECURSIVE SumWhitespace(_, _)
SumWhitespace(i, j) ==
    IF i >= j THEN 0 ELSE At(fragments, i).whitespace_width + SumWhitespace(i + 1, j)

\* Width of the line fragments[i..j]: the content of all its fragments, the
\* whitespace of all but the last, the break marker of the last.
WidthOfLine(i, j) ==
    SumContent(i, j) + SumWhitespace(i, j - 1) + At(fragments, j - 1).penalty_width

RECURSIVE Concat(_, _)
Concat(ls, k) ==
    IF k > Len(ls) THEN <<>>
    ELSE SubSeq(fragments, ls[k][1] + 1, ls[k][2]) \o Concat(ls, k + 1)

\* A partition of the fragments into contiguous non-empty lines is the set
\* of its boundaries, 0 and N included.
Partitions == {b \cup {0, N} : b \in SUBSET (1..(N - 1))}

BoundariesOf(ls) == {0} \cup {ls[k][2] : k \in 1..Len(ls)}

NextBoundary(b, i) == CHOOSE j \in b : j > i /\ \A x \in b : x > i => j <= x

\* Total cost of a partition: line_penalty chained over its lines, line k
\* against the target width of line number k.
RECURSIVE CostFrom(_, _, _, _)
CostFrom(b, i, k, acc) ==
    IF i >= N THEN acc
    ELSE LET j == NextBoundary(b, i)
         IN CostFrom(b, j, k + 1,
                     line_penalty(i, j, fragments, WidthOfLine(i, j),
                                  Max(1, LineWidthOf(line_widths, k)), acc))

TotalCost(b) == CostFrom(b, 0, 0, 0)

\* The cost matrix of the solver, on the final table.
C(i, j) ==
    line_penalty(i, j, fragments, WidthOfLine(i, j),
                 Max(1, line_widths.first), At(result, i).cost)

RECURSIVE SquaredGaps(_, _, _)
SquaredGaps(ls, k, target) ==
    IF k > Len(ls) THEN 0
    ELSE (target - WidthOfLine(ls[k][1], ls[k][2]))
             * (target - WidthOfLine(ls[k][1], ls[k][2]))
         + SquaredGaps(ls, k + 1, target)

\* "To be, or" / "not to be:" / "that is" / "the" / "question"
GreedyQuoteLines == << <<0, 3>>, <<3, 6>>, <<6, 8>>, <<8, 9>>, <<9, 10>> >>

----------------------------------------------------------------------------
\* Properties

\* C1: for a non-empty input the returned lines are contiguous slices of the
\* input, left to right, each starting where the previous one ends, and
\* their concatenation is the input.
C1_LinesCoverInput ==
    (Done /\ N > 0) =>
        /\ Len(lines) >= 1
        /\ lines[1][1] = 0
        /\ lines[Len(lines)][2] = N
        /\ \A k \in 1..Len(lines) : lines[k][1] < lines[k][2]
        /\ \A k \in 1..(Len(lines) - 1) : lines[k][2] = lines[k + 1][1]
        /\ Concat(lines, 1) = fragments

C1_Witness == Done /\ N = 3 /\ Len(lines) = 3

\* C2: with a constant target width, the total cost of the returned
\* partition is the minimum of the total cost over all partitions.
C2_ReturnedCostIsMinimal ==
    (Done /\ N > 0 /\ ConstantWidth) =>
        \A b \in Partitions : TotalCost(BoundariesOf(lines)) <= TotalCost(b)

\* C3 as stated: an empty input gives no line at all.
C3_EmptyInputNoLines == (Done /\ N = 0) => lines = <<>>

\* C3 amended: an empty input gives exactly one line, the empty slice
\* fragments[0..0] (the loop body runs once before pos is tested).
C3_EmptyInputOneEmptyLine == (Done /\ N = 0) => lines = << <<0, 0>> >>

C3_Witness == Done /\ N = 0 /\ Len(lines) = 1

\* C4: a single fragment comes back as exactly one line holding it, for
\* every target width; the call never panics and never stops short of
\* returning.
C4_SingleFragmentOneLine ==
    N = 1 =>
        /\ pc # "panic"
        /\ Done => lines = << <<0, 1>> >>
        /\ ~Done => ENABLED Next

C4_Witness ==
    /\ Done /\ N = 1 /\ lines = << <<0, 1>> >>
    /\ fragments[1].width > line_widths.first
    /\ \E e \in evals : e.line_width > e.target_width

\* C5: line k of the result, starting at boundary p, has line number k in
\* the cache, and the cost the table records for it is the one the closure
\* computed against max(1, line_widths(k)).
C5_LinesCostedAtOwnNumber ==
    Done =>
        \A k \in 1..Len(lines) :
            LET p == lines[k][1]
                q == lines[k][2]
                tw == Max(1, LineWidthOf(line_widths, k - 1))
            IN /\ At(line_numbers, p) = k - 1
               /\ q > p =>
                    /\ \E e \in evals :
                          /\ e.i = p /\ e.j = q
                          /\ e.line_number = k - 1
                          /\ e.target_width = tw
                          /\ e.cost = At(result, q).cost
                    /\ At(result, q).cost =
                          line_penalty(p, q, fragments, WidthOfLine(p, q), tw,
                                       At(result, p).cost)

C5_Witness ==
    /\ Done /\ Len(lines) >= 3
    /\ Max(1, line_widths.first) # Max(1, line_widths.rest)

\* C6: the quote at width 10 comes back in five lines whose squared gaps sum
\* to 41, against 63 for the greedy partition.
C6_QuoteExample ==
    (Done /\ fragments = QuoteFragments /\ line_widths = Widths(10, 10)) =>
        /\ Len(lines) = 5
        /\ SquaredGaps(lines, 1, 10) = 41
        /\ SquaredGaps(GreedyQuoteLines, 1, 10) = 63
        /\ SquaredGaps(lines, 1, 10) < SquaredGaps(GreedyQuoteLines, 1, 10)

C6_Witness ==
    /\ Done /\ fragments = QuoteFragments /\ line_widths = Widths(10, 10)
    /\ lines # GreedyQuoteLines

\* C7: every candidate line the closure is called on has 0 <= i < j <= n,
\* its width is the content of fragments i..j-1 plus the whitespace of
\* i..j-2 plus the break marker of j-1, and no subtraction went below zero.
C7_LineWidthOfCandidates ==
    \A e \in evals :
        /\ 0 <= e.i /\ e.i < e.j /\ e.j <= N
        /\ ~e.under
        /\ e.line_width = WidthOfLine(e.i, e.j)

C7_Witness ==
    \E e \in evals :
        /\ e.j >= e.i + 2
        /\ At(fragments, e.j - 1).whitespace_width > 0
        /\ At(fragments, e.j - 1).penalty_width > 0
        /\ At(fragments, e.i).whitespace_width > 0

\* C8: with a constant target width the cost matrix is totally monotone
\* above the diagonal.
C8_TotallyMonotone ==
    (Done /\ ConstantWidth) =>
        \A i1, i2, j1, j2 \in 0..N :
            (i1 < i2 /\ i2 < j1 /\ j1 < j2 /\ C(i1, j1) >= C(i2, j1))
                => C(i1, j2) >= C(i2, j2)

\* What line_penalty added for the shortness of the last line in call e.
ShortTerm(e) ==
    e.cost - e.minimum_cost - NLINE_PENALTY
    - (IF At(fragments, e.j - 1).penalty_width > 0 THEN HYPHEN_PENALTY ELSE 0)
    - (IF e.line_width > e.target_width
       THEN (e.line_width - e.target_width) * OVERFLOW_PENALTY
       ELSE IF e.j < N THEN GapPenalty(e.line_width, e.target_width) ELSE 0)

C10_CacheStep ==
    /\ Len(line_numbers') >= Len(line_numbers)
    /\ \A k \in 1..Len(line_numbers) : line_numbers'[k] = line_numbers[k]
    /\ Len(line_numbers') >= 1 => At(line_numbers', 0) = 0
    /\ \A k \in 1..(Len(line_numbers') - 1) :
          /\ k < Len(result')
          /\ At(result', k).row < k
          /\ At(line_numbers', k) = 1 + At(line_numbers', At(result', k).row)
    /\ \A k \in 0..(Len(line_numbers) - 1) :
          k < Len(result) => At(result', k) = At(result, k)

C10_CacheAppendOnly == [][C10_CacheStep]_vars

C10_Witness ==
    /\ pc = "solve"
    /\ Len(line_numbers) >= 3
    /\ Len(result) > Len(line_numbers) + 1
    /\ At(line_numbers, 2) = 1

====
